---- MODULE Spec2Model ----
(***************************************************************************)
(* A model of the ML engine of kedro-ml-ui: the AutoML algorithm selector  *)
(* (ml_engine/automl/auto_selector.py) and the data connectors with their  *)
(* factory (ml_engine/connectors).                                         *)
(*                                                                         *)
(* Python's Optional values are modelled as sequences of length at most    *)
(* one: None is <<>> and a value x is <<x>>.  Floating point scores are    *)
(* modelled by small naturals (only their order is used by the code; NaN   *)
(* is not in the domain).  Wall-clock time is modelled by the seconds      *)
(* elapsed since the current select_best_algorithm call took start_time;   *)
(* it advances only while an algorithm is being evaluated, so that at any  *)
(* moment 'elapsed' is the instant the latest evaluation ended.            *)
(***************************************************************************)
EXTENDS Integers, Sequences, FiniteSets, TLC

VARIABLES
    mode,            \* "manual": the caller drives an AutoMLSelector (n_algorithms given, no
                     \* time limit); "auto": auto_train_best_model (time_limit given)
    problem_type,    \* AutoMLSelector.problem_type
    time_limit,      \* AutoMLSelector.time_limit (Optional[int])
    n_algorithms,    \* AutoMLSelector.n_algorithms (Optional[int])
    results,         \* AutoMLSelector.results
    best_algorithm,  \* AutoMLSelector.best_algorithm (Optional[str])
    best_score,      \* AutoMLSelector.best_score (Optional[float])
    best_model,      \* AutoMLSelector.best_model (Optional[model instance])
    pc,              \* position of the caller: "idle", "loop", "after", "returned"
    algos,           \* select_best_algorithm's local 'algos'
    idx,             \* position of the for loop in algos
    elapsed,         \* time.time() - start_time
    attempted,       \* history: the loop bodies run by the current/last call
    ret,             \* the last return value of select_best_algorithm
    train,           \* the outcome of the last train_best_model call
    autoRet,         \* the outcome of auto_train_best_model
    calls,           \* number of select_best_algorithm calls begun
    evals,           \* number of loop bodies run so far, over all calls
    config,          \* the ConnectionConfig handed to DataConnectorFactory
    made,            \* the outcome of DataConnectorFactory.create_connector(config)
    validation,      \* the outcome of DataConnectorFactory.validate_config(config)
    connClass,       \* the class of the connector in use
    handle,          \* its engine / client / connection attribute: "None" or "open"
    cpc,             \* "ready", or "body" inside the body of a with-block
    log,             \* the calls made by __enter__ and __exit__ of the last with-statement
    test,            \* the outcome of the last test_connection call
    withRes,         \* the outcome of the last with-statement
    query,           \* config.query_or_path of the connector in use, as its characters
    sample_size,     \* config.sample_size of the connector in use (Optional[int])
    source_rows,     \* the number of rows the data source holds
    fetched,         \* the outcome of the last load_data / preview_data call
    model_name,      \* type(model).__name__ of the model given to SHAPExplainer
    explainer,       \* SHAPExplainer.explainer (None or the shap class built)
    spc,             \* "new": before __init__, "ready": constructed, "failed": __init__ raised
    built,           \* history: the shap explainer classes __init__ tried to build
    shap_values,     \* SHAPExplainer.shap_values (None or values for that many samples)
    explained,       \* the outcome of the last explain call
    cmp_type,        \* ModelComparison.problem_type
    models,          \* ModelComparison.models: name -> the model object stored
    cmp_results,     \* ModelComparison.results
    added,           \* number of add_model calls; the k-th call is given model object k
    asked,           \* the outcome of the last get_comparison_table / get_best_model call
    datasets,        \* the rows of the datasets table the dataset API reads, by id
    response,        \* the answer to the last request to the dataset API
    utable,          \* the datasets table update_datasets works on, by id; the field
                     \* 'file' of a row is what the file system holds at its file_path
    ubefore,         \* history: the table when update_datasets began
    upc,             \* position in update_datasets: "start", "loop", "commit", "done"
    todo,            \* the fetched datasets the for loop has not reached yet
    total,           \* update_datasets' local 'total'
    updated,         \* update_datasets' local 'updated'
    failed,          \* update_datasets' local 'failed'
    sql_config,      \* the ConnectionConfig the caller hands to the SQL connector classes
    sql_before,      \* that ConnectionConfig as it was before the latest construction
    sql_made         \* the latest construction: its class, exception, connection_string

selVars == <<mode, problem_type, time_limit, n_algorithms, results, best_algorithm,
             best_score, best_model, pc, algos, idx, elapsed, attempted, ret,
             train, autoRet, calls, evals>>

factoryVars == <<config, made, validation>>

connVars == <<connClass, handle, cpc, log, test, withRes>>

dataVars == <<query, sample_size, source_rows, fetched>>

shapVars == <<model_name, explainer, spc, built, shap_values, explained>>

cmpVars == <<cmp_type, models, cmp_results, added, asked>>

apiVars == <<datasets, response>>

updVars == <<utable, ubefore, upc, todo, total, updated, failed>>

sqlVars == <<sql_config, sql_before, sql_made>>

restVars == <<dataVars, shapVars, cmpVars, apiVars, updVars, sqlVars>>

vars == <<selVars, factoryVars, connVars, restVars>>

\* ---------------------------------------------------------------- bounds

MaxScore == 1
MaxDur == 1
MaxLimit == 1
MaxCalls == 2
MaxEvals == 5

Scores == 0..MaxScore
\* How long one evaluation may take.  The loop reads the clock only when
\* time_limit is truthy ("self.time_limit and ..."), so time is tracked only then.
Durations(limit) == IF limit # <<>> /\ limit[1] # 0 THEN 0..MaxDur ELSE {0}

\* ------------------------------------------------------- Python values

None == <<>>

Some(x) == <<x>>

\* bool(o) of an Optional[int]: None and 0 are falsy.
Truthy(o) == o # None /\ o[1] # 0

\* bool(o) of an Optional[str]: None and '' are falsy.
TruthyStr(o) == o # None /\ o[1] # ""

\* --------------------------------------------------------- the registry

CLASSIFICATION_ALGORITHMS ==
    << [key |-> "logistic",          name |-> "Logistic Regression",    priority |-> 1],
       [key |-> "random_forest",     name |-> "Random Forest",          priority |-> 2],
       [key |-> "xgboost",           name |-> "XGBoost",                priority |-> 3],
       [key |-> "gradient_boosting", name |-> "Gradient Boosting",      priority |-> 4],
       [key |-> "svm",               name |-> "Support Vector Machine", priority |-> 5] >>

REGRESSION_ALGORITHMS ==
    << [key |-> "linear",                name |-> "Linear Regression",           priority |-> 1],
       [key |-> "ridge",                 name |-> "Ridge Regression",            priority |-> 2],
       [key |-> "random_forest_reg",     name |-> "Random Forest Regressor",     priority |-> 3],
       [key |-> "xgboost_reg",           name |-> "XGBoost Regressor",           priority |-> 4],
       [key |-> "gradient_boosting_reg", name |-> "Gradient Boosting Regressor", priority |-> 5] >>

ProblemTypes == {"classification", "regression"}

Registry(ptype) ==
    IF ptype = "classification" THEN CLASSIFICATION_ALGORITHMS ELSE REGRESSION_ALGORITHMS

\* sorted(items, key=priority): a stable insertion sort, ascending.
RECURSIVE InsertByPriority(_, _)
InsertByPriority(sorted, a) ==
    IF sorted = <<>> THEN <<a>>
    ELSE IF Head(sorted).priority <= a.priority
         THEN <<Head(sorted)>> \o InsertByPriority(Tail(sorted), a)
         ELSE <<a>> \o sorted

RECURSIVE SortByPriority(_)
SortByPriority(items) ==
    IF items = <<>> THEN <<>>
    ELSE InsertByPriority(SortByPriority(SubSeq(items, 1, Len(items) - 1)), items[Len(items)])

\* items[:k] for k >= 0.
Take(items, k) == SubSeq(items, 1, IF k < Len(items) THEN k ELSE Len(items))

GetAlgorithmListOffByOne(ptype, nalg) ==
    IF Truthy(nalg) THEN Take(SortByPriority(Registry(ptype)), nalg[1] + 1)
    ELSE SortByPriority(Registry(ptype))

\* AutoMLSelector._get_algorithm_list
GetAlgorithmList(ptype, nalg) ==
    IF Truthy(nalg) THEN Take(SortByPriority(Registry(ptype)), nalg[1])
    ELSE SortByPriority(Registry(ptype))

Keys(items) == {items[i].key : i \in DOMAIN items}

\* ------------------------------------------------- select_best_algorithm

\* self.results.sort(key=mean_score, reverse=True): stable, descending.
RECURSIVE InsertByScore(_, _)
InsertByScore(sorted, r) ==
    IF sorted = <<>> THEN <<r>>
    ELSE IF Head(sorted).mean_score >= r.mean_score
         THEN <<Head(sorted)>> \o InsertByScore(Tail(sorted), r)
         ELSE <<r>> \o sorted

SortResultsNot(rs) == rs

RECURSIVE SortResults(_)
SortResults(rs) ==
    IF rs = <<>> THEN <<>>
    ELSE InsertByScore(SortResults(SubSeq(rs, 1, Len(rs) - 1)), rs[Len(rs)])

\* the loop's check of the time limit
TimeUp == Truthy(time_limit) /\ elapsed > time_limit[1]

IsBetterOrEqual(best, s) == best = None \/ s >= best[1]

\* "if self.best_score is None or mean_score > self.best_score"
IsBetter(best, s) == best = None \/ s > best[1]

OnExceptionBreak == "after"

\* "except Exception ... continue": where the loop goes after a failure
OnException == "loop"

SelectStart ==
    /\ pc = "idle"
    /\ IF mode = "auto" THEN calls = 0 ELSE calls < MaxCalls
    /\ evals + Len(GetAlgorithmList(problem_type, n_algorithms)) <= MaxEvals
    /\ algos' = GetAlgorithmList(problem_type, n_algorithms)
    /\ idx' = 1
    /\ elapsed' = 0
    /\ attempted' = <<>>
    /\ calls' = calls + 1
    /\ pc' = "loop"
    /\ UNCHANGED <<mode, problem_type, time_limit, n_algorithms, results, best_algorithm,
                   best_score, best_model, ret, train, autoRet, evals>>
    /\ UNCHANGED <<factoryVars, connVars, restVars>>

TimeLimitBreak ==
    /\ pc = "loop"
    /\ idx <= Len(algos)
    /\ TimeUp
    /\ pc' = "after"
    /\ UNCHANGED <<mode, problem_type, time_limit, n_algorithms, results, best_algorithm,
                   best_score, best_model, algos, idx, elapsed, attempted, ret, train,
                   autoRet, calls, evals>>
    /\ UNCHANGED <<factoryVars, connVars, restVars>>

EvaluateOk ==
    /\ pc = "loop"
    /\ idx <= Len(algos)
    /\ ~TimeUp
    /\ \E s \in Scores, d \in Durations(time_limit) :
          LET key == algos[idx].key
              model == [algo |-> key, origin |-> "select", fitted |-> FALSE]
          IN /\ results' = Append(results, [algorithm |-> key, mean_score |-> s,
                                            seq |-> Len(results) + 1])
             /\ IF IsBetter(best_score, s)
                THEN /\ best_score' = Some(s)
                     /\ best_algorithm' = Some(key)
                     /\ best_model' = Some(model)
                ELSE UNCHANGED <<best_score, best_algorithm, best_model>>
             /\ attempted' = Append(attempted, [algorithm |-> key, failed |-> FALSE])
             /\ elapsed' = elapsed + d
    /\ evals' = evals + 1
    /\ idx' = idx + 1
    /\ UNCHANGED <<mode, problem_type, time_limit, n_algorithms, pc, algos, ret, train, autoRet, calls>>
    /\ UNCHANGED <<factoryVars, connVars, restVars>>

EvaluateFail ==
    /\ pc = "loop"
    /\ idx <= Len(algos)
    /\ ~TimeUp
    /\ \E d \in Durations(time_limit) :
          /\ attempted' = Append(attempted, [algorithm |-> algos[idx].key, failed |-> TRUE])
          /\ elapsed' = elapsed + d
    /\ evals' = evals + 1
    /\ idx' = idx + 1
    /\ pc' = OnException
    /\ UNCHANGED <<mode, problem_type, time_limit, n_algorithms, results, best_algorithm,
                   best_score, best_model, algos, ret, train, autoRet, calls>>
    /\ UNCHANGED <<factoryVars, connVars, restVars>>

LoopExit ==
    /\ pc = "loop"
    /\ idx > Len(algos)
    /\ pc' = "after"
    /\ UNCHANGED <<mode, problem_type, time_limit, n_algorithms, results, best_algorithm,
                   best_score, best_model, algos, idx, elapsed, attempted, ret, train,
                   autoRet, calls, evals>>
    /\ UNCHANGED <<factoryVars, connVars, restVars>>

\* lines 228-247: sort, look up the best algorithm's name, return
SelectReturn ==
    /\ pc = "after"
    /\ results' = SortResults(results)
    /\ ret' = IF TruthyStr(best_algorithm) /\ best_algorithm[1] \notin Keys(algos)
              THEN [raised |-> "KeyError", best_algorithm |-> None, best_score |-> None,
                    all_results |-> <<>>]
              ELSE [raised |-> "none", best_algorithm |-> best_algorithm,
                    best_score |-> best_score, all_results |-> SortResults(results)]
    /\ pc' = "idle"
    /\ UNCHANGED <<mode, problem_type, time_limit, n_algorithms, best_algorithm,
                   best_score, best_model, algos, idx, elapsed, attempted, train,
                   autoRet, calls, evals>>
    /\ UNCHANGED <<factoryVars, connVars, restVars>>

NoTrain == [called |-> FALSE, raised |-> "none", returned |-> None, selected |-> None,
            nresults |-> 0, before |-> None, after |-> None]

NoAutoRet == [raised |-> "none", model |-> None, algorithm |-> None, cv_score |-> None]

MustSelectFirstNever(ba) == FALSE

\* "if not self.best_algorithm: raise ValueError(...)"
MustSelectFirst(ba) == ~TruthyStr(ba)

\* AutoMLSelector.train_best_model: the guard, _create_model (a KeyError for a key
\* that is not in the algorithm list), fit (which may raise).  Under
\* auto_train_best_model its result or exception is that of auto_train_best_model.
TrainBestModel ==
    /\ pc = "idle"
    /\ IF mode = "auto" THEN calls = 1 ELSE TRUE
    /\ \E fitOk \in BOOLEAN :
          LET model == [algo |-> best_algorithm[1], origin |-> "train", fitted |-> TRUE]
              known == /\ best_algorithm # None
                       /\ best_algorithm[1] \in Keys(GetAlgorithmList(problem_type, n_algorithms))
              raised == IF MustSelectFirst(best_algorithm) THEN "ValueError"
                        ELSE IF ~known THEN "KeyError"
                        ELSE IF fitOk THEN "none" ELSE "FitError"
          IN /\ best_model' = IF raised = "none" THEN Some(model) ELSE best_model
             /\ train' = [called |-> TRUE, raised |-> raised, selected |-> best_algorithm,
                          nresults |-> Len(results), before |-> best_model,
                          after |-> best_model',
                          returned |-> IF raised = "none" THEN Some(model) ELSE None]
             /\ IF mode = "auto"
                THEN /\ pc' = "returned"
                     /\ autoRet' = IF raised = "none"
                                   THEN [raised |-> "none", model |-> Some(model),
                                         algorithm |-> ret.best_algorithm,
                                         cv_score |-> ret.best_score]
                                   ELSE [NoAutoRet EXCEPT !.raised = raised]
                ELSE UNCHANGED <<pc, autoRet>>
    /\ UNCHANGED <<mode, problem_type, time_limit, n_algorithms, results, best_algorithm,
                   best_score, algos, idx, elapsed, attempted, ret, calls, evals>>
    /\ UNCHANGED <<factoryVars, connVars, restVars>>

InitSel ==
    /\ mode \in {"manual", "auto"}
    /\ problem_type \in ProblemTypes
    /\ time_limit \in IF mode = "auto" THEN {None} \cup {Some(t) : t \in 0..MaxLimit}
                      ELSE {None}
    /\ n_algorithms \in IF mode = "auto" THEN {None}
                        ELSE {None} \cup {Some(k) : k \in 0..(Len(CLASSIFICATION_ALGORITHMS) + 1)}
    /\ results = <<>>
    /\ best_algorithm = None
    /\ best_score = None
    /\ best_model = None
    /\ pc = "idle"
    /\ algos = <<>>
    /\ idx = 1
    /\ elapsed = 0
    /\ attempted = <<>>
    /\ ret = [raised |-> "none", best_algorithm |-> None, best_score |-> None,
              all_results |-> <<>>]
    /\ train = NoTrain
    /\ autoRet = NoAutoRet
    /\ calls = 0
    /\ evals = 0

\* ============================================================== connectors
\* Strings whose letter case matters (source_type) are sequences of one-character
\* strings, so that str.lower() is computed and not assumed.

LowercaseLetters ==
    <<"a", "b", "c", "d", "e", "f", "g", "h", "i", "j", "k", "l", "m",
      "n", "o", "p", "q", "r", "s", "t", "u", "v", "w", "x", "y", "z">>

UppercaseLetters ==
    <<"A", "B", "C", "D", "E", "F", "G", "H", "I", "J", "K", "L", "M",
      "N", "O", "P", "Q", "R", "S", "T", "U", "V", "W", "X", "Y", "Z">>

LowerChar(c) ==
    IF \E i \in DOMAIN UppercaseLetters : UppercaseLetters[i] = c
    THEN LowercaseLetters[CHOOSE i \in DOMAIN UppercaseLetters : UppercaseLetters[i] = c]
    ELSE c

UpperChar(c) ==
    IF \E i \in DOMAIN LowercaseLetters : LowercaseLetters[i] = c
    THEN UppercaseLetters[CHOOSE i \in DOMAIN LowercaseLetters : LowercaseLetters[i] = c]
    ELSE c

\* str.lower()
Lower(str) == [i \in DOMAIN str |-> LowerChar(str[i])]

Upper(str) == [i \in DOMAIN str |-> UpperChar(str[i])]

Capitalized(str) == [i \in DOMAIN str |-> IF i = 1 THEN UpperChar(str[i]) ELSE str[i]]

T_aws_redshift == <<"a", "w", "s", "_", "r", "e", "d", "s", "h", "i", "f", "t">>
T_aws_s3 == <<"a", "w", "s", "_", "s", "3">>
T_azure == <<"a", "z", "u", "r", "e">>
T_azure_blob == <<"a", "z", "u", "r", "e", "_", "b", "l", "o", "b">>
T_bigquery == <<"b", "i", "g", "q", "u", "e", "r", "y">>
T_csv == <<"c", "s", "v">>
T_databricks == <<"d", "a", "t", "a", "b", "r", "i", "c", "k", "s">>
T_db2 == <<"d", "b", "2">>
T_gcs == <<"g", "c", "s">>
T_google_cloud_storage == <<"g", "o", "o", "g", "l", "e", "_", "c", "l", "o", "u", "d", "_", "s", "t", "o", "r", "a", "g", "e">>
T_local_file == <<"l", "o", "c", "a", "l", "_", "f", "i", "l", "e">>
T_mssql == <<"m", "s", "s", "q", "l">>
T_mysql == <<"m", "y", "s", "q", "l">>
T_oracle == <<"o", "r", "a", "c", "l", "e">>
T_postgres == <<"p", "o", "s", "t", "g", "r", "e", "s">>
T_postgresql == <<"p", "o", "s", "t", "g", "r", "e", "s", "q", "l">>
T_redshift == <<"r", "e", "d", "s", "h", "i", "f", "t">>
T_s3 == <<"s", "3">>
T_snowflake == <<"s", "n", "o", "w", "f", "l", "a", "k", "e">>
T_sqlserver == <<"s", "q", "l", "s", "e", "r", "v", "e", "r">>
T_teradata == <<"t", "e", "r", "a", "d", "a", "t", "a">>

\* DataConnectorFactory.CONNECTORS, in the order of the dict
CONNECTORS ==
    << [tag |-> T_csv, class |-> "CSVConnector"],
       [tag |-> T_local_file, class |-> "CSVConnector"],
       [tag |-> T_mysql, class |-> "MySQLConnector"],
       [tag |-> T_postgresql, class |-> "PostgreSQLConnector"],
       [tag |-> T_postgres, class |-> "PostgreSQLConnector"],
       [tag |-> T_mssql, class |-> "SQLServerConnector"],
       [tag |-> T_sqlserver, class |-> "SQLServerConnector"],
       [tag |-> T_oracle, class |-> "OracleConnector"],
       [tag |-> T_db2, class |-> "DB2Connector"],
       [tag |-> T_s3, class |-> "S3Connector"],
       [tag |-> T_aws_s3, class |-> "S3Connector"],
       [tag |-> T_gcs, class |-> "GCSConnector"],
       [tag |-> T_google_cloud_storage, class |-> "GCSConnector"],
       [tag |-> T_azure_blob, class |-> "AzureBlobConnector"],
       [tag |-> T_azure, class |-> "AzureBlobConnector"],
       [tag |-> T_bigquery, class |-> "BigQueryConnector"],
       [tag |-> T_snowflake, class |-> "SnowflakeConnector"],
       [tag |-> T_redshift, class |-> "RedshiftConnector"],
       [tag |-> T_aws_redshift, class |-> "RedshiftConnector"],
       [tag |-> T_databricks, class |-> "DatabricksConnector"],
       [tag |-> T_teradata, class |-> "TeradataConnector"] >>

\* the 'schemas' dict of get_connection_params_schema (required parameters)
SCHEMAS ==
    << [tag |-> T_csv, required |-> <<"file_path">>],
       [tag |-> T_mysql, required |-> <<"host", "database", "username", "password">>],
       [tag |-> T_postgresql, required |-> <<"host", "database", "username", "password">>],
       [tag |-> T_mssql, required |-> <<"host", "database", "username", "password">>],
       [tag |-> T_oracle, required |-> <<"host", "service_name", "username", "password">>],
       [tag |-> T_db2, required |-> <<"host", "database", "username", "password">>],
       [tag |-> T_s3, required |-> <<"bucket", "key">>],
       [tag |-> T_gcs, required |-> <<"bucket", "blob_name">>],
       [tag |-> T_azure_blob, required |-> <<"container", "blob_name">>],
       [tag |-> T_bigquery, required |-> <<"project_id">>],
       [tag |-> T_snowflake, required |-> <<"account", "user", "password", "warehouse", "database">>],
       [tag |-> T_redshift, required |-> <<"host", "database", "user", "password">>],
       [tag |-> T_databricks, required |-> <<"server_hostname", "http_path", "access_token">>],
       [tag |-> T_teradata, required |-> <<"host", "user", "password">>] >>

RegisteredTags == {CONNECTORS[i].tag : i \in DOMAIN CONNECTORS}

\* "source_type in cls.CONNECTORS"
InConnectors(tag) == \E i \in DOMAIN CONNECTORS : CONNECTORS[i].tag = tag

\* "cls.CONNECTORS[source_type]"
ConnectorClass(tag) == CONNECTORS[CHOOSE i \in DOMAIN CONNECTORS : CONNECTORS[i].tag = tag].class

NormalizeTagVerbatim(tag) == tag

\* "source_type = config.source_type.lower()" of create_connector
NormalizeTag(tag) == Lower(tag)

\* DataConnectorFactory.get_connection_params_schema (the 'required' list)
GetConnectionParamsSchema(source_type) ==
    LET t == Lower(source_type)
    IN IF \E i \in DOMAIN SCHEMAS : SCHEMAS[i].tag = t
       THEN SCHEMAS[CHOOSE i \in DOMAIN SCHEMAS : SCHEMAS[i].tag = t].required
       ELSE <<>>

SqlDialect(class) ==
    CASE class = "MySQLConnector" -> "mysql"
      [] class = "PostgreSQLConnector" -> "postgresql"
      [] class = "SQLServerConnector" -> "mssql"
      [] class = "OracleConnector" -> "oracle"
      [] class = "DB2Connector" -> "db2"
      [] OTHER -> ""

ParamsUntouched(class, params) == params

\* The constructors of the SQL connectors write config.connection_params['db_type'].
ParamsAfterInit(class, params) ==
    IF SqlDialect(class) # ""
    THEN [k \in DOMAIN params \cup {"db_type"} |->
             IF k = "db_type" THEN SqlDialect(class) ELSE params[k]]
    ELSE params

\* DataConnectorFactory.create_connector: the class instantiated, or the exception
CreateConnector(cfg) ==
    LET source_type == NormalizeTag(cfg.source_type)
    IN IF ~InConnectors(source_type)
       THEN [called |-> TRUE, raised |-> "ValueError", class |-> ""]
       ELSE [called |-> TRUE, raised |-> "none", class |-> ConnectorClass(source_type)]

MissingParamsInverted(required, params) ==
    SelectSeq(required, LAMBDA p : p \in DOMAIN params)

\* "for param in schema.get('required', []): if param not in config.connection_params"
MissingParams(required, params) ==
    SelectSeq(required, LAMBDA p : p \notin DOMAIN params)

\* DataConnectorFactory.validate_config
ValidateConfig(cfg) ==
    IF ~InConnectors(Lower(cfg.source_type))
    THEN [called |-> TRUE, valid |-> FALSE,
          errors |-> <<[msg |-> "Unsupported source type", param |-> ""]>>,
          warnings |-> <<>>]
    ELSE LET required == GetConnectionParamsSchema(cfg.source_type)
             missing == MissingParams(required, cfg.connection_params)
             errors == [i \in DOMAIN missing |->
                           [msg |-> "Missing required parameter", param |-> missing[i]]]
                       \o (IF ~TruthyStr(cfg.query_or_path)
                           THEN <<[msg |-> "query_or_path is required", param |-> ""]>>
                           ELSE <<>>)
         IN [called |-> TRUE, valid |-> Len(errors) = 0, errors |-> errors,
             warnings |-> <<>>]

NoMade == [called |-> FALSE, raised |-> "none", class |-> ""]

NoValidation == [called |-> FALSE, valid |-> FALSE, errors |-> <<>>, warnings |-> <<>>]

\* the caller invokes DataConnectorFactory.create_connector(config); the constructor
\* of a SQL connector writes 'db_type' into the caller's connection_params
DoCreateConnector ==
    /\ ~made.called
    /\ made' = CreateConnector(config)
    /\ config' = IF made'.raised = "none"
                 THEN [config EXCEPT !.connection_params = ParamsAfterInit(made'.class, @)]
                 ELSE config
    /\ UNCHANGED <<validation, selVars, connVars, restVars>>

\* the caller invokes DataConnectorFactory.validate_config(config)
DoValidateConfig ==
    /\ ~validation.called
    /\ validation' = ValidateConfig(config)
    /\ UNCHANGED <<config, made, selVars, connVars, restVars>>

\* ------------------------------------------------------ connector objects
\* The connect, probe and body steps depend on the outside world (file system,
\* network, installed client libraries): their outcome is chosen freely.  The
\* libraries' close() and dispose() calls are taken not to raise.

ConnectorClasses == {CONNECTORS[i].class : i \in DOMAIN CONNECTORS}

Family(class) ==
    CASE class = "CSVConnector" -> "csv"
      [] SqlDialect(class) # "" -> "database"
      [] class = "S3Connector" -> "s3"
      [] class = "GCSConnector" -> "gcs"
      [] class = "AzureBlobConnector" -> "azure"
      [] class = "BigQueryConnector" -> "bigquery"
      [] class = "SnowflakeConnector" -> "snowflake"
      [] class = "RedshiftConnector" -> "redshift"
      [] class = "DatabricksConnector" -> "databricks"
      [] class = "TeradataConnector" -> "teradata"

\* How connect() can end: "ok"; "early": it raises before the handle attribute is
\* assigned (file missing, import error, client constructor or create_engine raises);
\* "late": it raises after the assignment (DatabaseConnector and RedshiftConnector
\* assign self.engine and then run SELECT 1).
ConnectOutcomes(class) ==
    IF Family(class) \in {"database", "redshift"} THEN {"ok", "early", "late"}
    ELSE {"ok", "early"}

\* the handle attribute after connect()
HandleAfterConnect(class, h, co) ==
    IF Family(class) = "csv" THEN h
    ELSE IF co = "early" THEN h
    ELSE "open"

\* the handle attribute after disconnect()
HandleAfterDisconnect(class, h) ==
    IF Family(class) = "csv" THEN h ELSE "None"

\* How the probe of test_connection (read_csv, SELECT 1, head_object, blob.exists,
\* get_blob_properties, ...) can end; RedshiftConnector.test_connection only connects.
ProbeOutcomes(class) ==
    CASE Family(class) = "redshift" -> {"ok"}
      [] Family(class) = "gcs" -> {"ok", "raise", "notfound"}
      [] OTHER -> {"ok", "raise"}

UncaughtResult == [raised |-> "RuntimeError", status |-> "", message |-> FALSE]

\* "except Exception as e: return {'status': 'error', 'message': str(e)}"
CaughtResult == [raised |-> "none", status |-> "error", message |-> TRUE]

\* test_connection of every connector class: what it returns
TestConnectionResult(class, co, po) ==
    IF co # "ok" \/ po = "raise" THEN CaughtResult
    ELSE IF po = "notfound" THEN [raised |-> "none", status |-> "error", message |-> TRUE]
    ELSE [raised |-> "none", status |-> "success", message |-> TRUE]

NoTest == [called |-> FALSE, connect |-> "ok", probe |-> "ok",
           result |-> [raised |-> "none", status |-> "", message |-> FALSE]]

NoWith == [done |-> FALSE, entered |-> FALSE, bodyRaised |-> FALSE, raised |-> FALSE,
           handleAfter |-> "None"]

Connect ==
    /\ \E co \in ConnectOutcomes(connClass) :
          handle' = HandleAfterConnect(connClass, handle, co)
    /\ UNCHANGED <<connClass, cpc, log, test, withRes, selVars, factoryVars, restVars>>

Disconnect ==
    /\ handle' = HandleAfterDisconnect(connClass, handle)
    /\ UNCHANGED <<connClass, cpc, log, test, withRes, selVars, factoryVars, restVars>>

\* test_connection; DatabaseConnector's has "finally: self.disconnect()"
TestConnection ==
    /\ \E co \in ConnectOutcomes(connClass), po \in ProbeOutcomes(connClass) :
          /\ test' = [called |-> TRUE, connect |-> co,
                      probe |-> IF co = "ok" THEN po ELSE "ok",
                      result |-> TestConnectionResult(connClass, co, po)]
          /\ handle' = IF Family(connClass) = "database"
                       THEN HandleAfterDisconnect(connClass,
                                HandleAfterConnect(connClass, handle, co))
                       ELSE HandleAfterConnect(connClass, handle, co)
    /\ UNCHANGED <<connClass, cpc, log, withRes, selVars, factoryVars, restVars>>

\* "with connector:" reaches __enter__, which calls connect(); when connect() raises
\* the with-statement ends there and __exit__ is not run
WithEnter ==
    /\ cpc = "ready"
    /\ \E co \in ConnectOutcomes(connClass) :
          /\ handle' = HandleAfterConnect(connClass, handle, co)
          /\ log' = <<"connect">>
          /\ IF co = "ok"
             THEN /\ cpc' = "body"
                  /\ withRes' = [NoWith EXCEPT !.entered = TRUE]
             ELSE /\ cpc' = "ready"
                  /\ withRes' = [done |-> TRUE, entered |-> FALSE, bodyRaised |-> FALSE,
                                 raised |-> TRUE, handleAfter |-> handle']
    /\ UNCHANGED <<connClass, test, selVars, factoryVars, restVars>>

ExitCallsNothing == <<>>

\* DataConnector.__exit__: "self.disconnect()"
ExitCalls == <<"disconnect">>

\* the body of the with-block ends, normally or by an exception, and __exit__ runs;
\* __exit__ returns None, so the body's exception propagates
WithExit ==
    /\ cpc = "body"
    /\ \E bodyRaises \in BOOLEAN :
          /\ log' = log \o ExitCalls
          /\ handle' = IF ExitCalls # <<>> THEN HandleAfterDisconnect(connClass, handle)
                       ELSE handle
          /\ withRes' = [done |-> TRUE, entered |-> TRUE, bodyRaised |-> bodyRaises,
                         raised |-> bodyRaises, handleAfter |-> handle']
    /\ cpc' = "ready"
    /\ UNCHANGED <<connClass, test, selVars, factoryVars, restVars>>

\* ------------------------------------------- load_data and preview_data
\* A data source holds source_rows rows; a DataFrame is modelled by the sequence of
\* the source's row numbers it holds.  query_or_path is a sequence of one-character
\* strings, so that upper() and the 'in' substring tests act on its text.

MaxRows == 3
MaxSample == 2
MaxPreview == 2

Digits == <<"0", "1", "2", "3", "4", "5", "6", "7", "8", "9">>

\* str(n) of a non-negative int, as f"{n_rows}" formats it
RECURSIVE Str(_)
Str(n) == IF n < Len(Digits) THEN <<Digits[n + 1]>>
          ELSE Str(n \div Len(Digits)) \o <<Digits[(n % Len(Digits)) + 1]>>

\* Python's "sub in str"
Contains(sub, str) ==
    \E i \in 1..(Len(str) - Len(sub) + 1) : SubSeq(str, i, i + Len(sub) - 1) = sub

K_LIMIT == <<"L", "I", "M", "I", "T">>
K_TOP == <<"T", "O", "P">>
K_SAMPLE == <<"S", "A", "M", "P", "L", "E">>

\* f"{query} LIMIT {n}"
AppendClause(q, keyword, n) == q \o <<" ">> \o keyword \o <<" ">> \o Str(n)

\* the query texts tried

Queries ==
    {
     <<"S", "E", "L", "E", "C", "T", " ", "*", " ", "F", "R", "O", "M", " ", "t">>,   \* SELECT * FROM t
     <<"s", "e", "l", "e", "c", "t", " ", "*", " ", "f", "r", "o", "m", " ", "t", " ", "l", "i", "m", "i", "t", " ", "2">>,   \* select * from t limit 2
     <<"S", "E", "L", "E", "C", "T", " ", "*", " ", "F", "R", "O", "M", " ", "l", "i", "m", "i", "t", "s">>,   \* SELECT * FROM limits
     <<"S", "E", "L", "E", "C", "T", " ", "*", " ", "F", "R", "O", "M", " ", "s", "t", "o", "p", "s">>,   \* SELECT * FROM stops
     <<"S", "E", "L", "E", "C", "T", " ", "*", " ", "F", "R", "O", "M", " ", "s", "a", "m", "p", "l", "e", "s">>,   \* SELECT * FROM samples
     <<"S", "E", "L", "E", "C", "T", " ", "T", "O", "P", " ", "2", " ", "*", " ", "F", "R", "O", "M", " ", "t">>,   \* SELECT TOP 2 * FROM t
     <<"S", "E", "L", "E", "C", "T", " ", "*", " ", "F", "R", "O", "M", " ", "t", " ", "S", "A", "M", "P", "L", "E", " ", "2">>,   \* SELECT * FROM t SAMPLE 2
     <<"d", "a", "t", "a", ".", "c", "s", "v">>}                    \* "data.csv"

\* --- what the SQL engine behind pd.read_sql / client.query / cursor.execute does
\* with the text it is sent: a row-limiting clause is a keyword followed by a number
\* ("... LIMIT n", "... SAMPLE n" at the end, "SELECT TOP n ..." at the start);
\* letters inside an identifier are no clause.

RECURSIVE SplitWords(_, _)
SplitWords(str, word) ==
    IF str = <<>> THEN (IF word = <<>> THEN <<>> ELSE <<word>>)
    ELSE IF Head(str) = " "
         THEN (IF word = <<>> THEN <<>> ELSE <<word>>) \o SplitWords(Tail(str), <<>>)
         ELSE SplitWords(Tail(str), Append(word, Head(str)))

IsNumber(w) == w # <<>> /\ \A i \in DOMAIN w : \E d \in DOMAIN Digits : Digits[d] = w[i]

RECURSIVE NumberValue(_)
NumberValue(w) ==
    IF w = <<>> THEN 0
    ELSE Len(Digits) * NumberValue(SubSeq(w, 1, Len(w) - 1))
            + (CHOOSE d \in DOMAIN Digits : Digits[d] = w[Len(w)]) - 1

RowLimit(q) ==
    LET words == SplitWords(q, <<>>)
        n == Len(words)
    IN  IF n >= 2 /\ Upper(words[n - 1]) \in {K_LIMIT, K_SAMPLE} /\ IsNumber(words[n])
        THEN Some(NumberValue(words[n]))
        ELSE IF n >= 3 /\ Upper(words[2]) = K_TOP /\ IsNumber(words[3])
        THEN Some(NumberValue(words[3]))
        ELSE None

AllRows(n) == [i \in 1..n |-> i]

\* DataFrame.head(k), read_csv(nrows=k)
FirstRows(frame, k) == SubSeq(frame, 1, IF k < Len(frame) THEN k ELSE Len(frame))

\* the rows a query yields on a source of n rows
QueryResult(q, n) ==
    IF RowLimit(q) = None THEN AllRows(n) ELSE FirstRows(AllRows(n), RowLimit(q)[1])

\* df.sample(n=s, random_state=42): some s distinct rows of df, in some order
Samples(frame, s) ==
    {f \in [1..s -> {frame[i] : i \in DOMAIN frame}] :
        \A i, j \in 1..s : i # j => f[i] # f[j]}

\* "if self.config.sample_size and len(df) > self.config.sample_size: df = df.sample(...)"
PandasSampled(frame, ss) ==
    IF Truthy(ss) /\ Len(frame) > ss[1] THEN Samples(frame, ss[1]) ELSE {frame}

FileFamilies == {"csv", "s3", "gcs", "azure"}

LimitFamilies == {"bigquery", "snowflake", "redshift", "databricks"}

\* the keywords whose presence in query.upper() makes load_data / preview_data send
\* the query as it is
LoadGuard(class) ==
    CASE Family(class) \in LimitFamilies -> {K_LIMIT}
      [] Family(class) = "teradata" -> {K_SAMPLE}
      [] OTHER -> {}

PreviewGuard(class) ==
    CASE Family(class) = "database" -> {K_LIMIT, K_TOP}
      [] Family(class) \in LimitFamilies -> {K_LIMIT}
      [] Family(class) = "teradata" -> {K_SAMPLE}
      [] OTHER -> {}

\* the clause appended when no guard keyword is present
ClauseKeyword(class) == IF Family(class) = "teradata" THEN K_SAMPLE ELSE K_LIMIT

\* the query text load_data sends
LoadQuery(class, q, ss) ==
    IF /\ Family(class) \in LimitFamilies \cup {"teradata"}
       /\ Truthy(ss)
       /\ \A k \in LoadGuard(class) : ~Contains(k, Upper(q))
    THEN AppendClause(q, ClauseKeyword(class), ss[1])
    ELSE q

\* the query text preview_data sends
PreviewQuery(class, q, n) ==
    IF \A k \in PreviewGuard(class) : ~Contains(k, Upper(q))
    THEN AppendClause(q, ClauseKeyword(class), n)
    ELSE q

\* the frames load_data can return once connected and the read succeeds
LoadFrames(class, q, ss, n) ==
    CASE Family(class) \in FileFamilies -> PandasSampled(AllRows(n), ss)
      [] Family(class) = "database" -> PandasSampled(QueryResult(q, n), ss)
      [] OTHER -> {QueryResult(LoadQuery(class, q, ss), n)}

\* "if not self.engine: self.connect()"; CSVConnector does not connect here
ConnectsFirst(class, h) == Family(class) # "csv" /\ h = "None"

NoFetch == [op |-> "none", raised |-> "none", frame |-> <<>>, sent |-> None, n_rows |-> 0]

\* load_data of every connector class.  (load_data and preview_data read nothing of
\* an earlier call's outcome, only the handle attribute; a behaviour follows one
\* such call, made in either state of the handle.)
LoadData ==
    /\ fetched = NoFetch
    /\ \E co \in (IF ConnectsFirst(connClass, handle) THEN ConnectOutcomes(connClass) ELSE {"ok"}) :
       \E read \in (IF co = "ok" THEN {"ok", "raise"} ELSE {"ok"}) :
          LET connects == ConnectsFirst(connClass, handle)
              isSql == Family(connClass) \notin FileFamilies
              sent == IF isSql THEN Some(LoadQuery(connClass, query, sample_size)) ELSE None
          IN  /\ handle' = IF connects THEN HandleAfterConnect(connClass, handle, co)
                           ELSE handle
              /\ IF (connects /\ co # "ok") \/ read = "raise"
                 THEN fetched' = [op |-> "load_data", raised |-> "RuntimeError",
                                  frame |-> <<>>, n_rows |-> 0,
                                  sent |-> IF connects /\ co # "ok" THEN None ELSE sent]
                 ELSE \E f \in LoadFrames(connClass, query, sample_size, source_rows) :
                         fetched' = [op |-> "load_data", raised |-> "none", frame |-> f,
                                     sent |-> sent, n_rows |-> 0]
    /\ UNCHANGED <<query, sample_size, source_rows>>
    /\ UNCHANGED <<connClass, cpc, log, test, withRes, selVars, factoryVars, shapVars, cmpVars, apiVars, updVars, sqlVars>>

\* preview_data(n_rows) of every connector class: CSVConnector reads nrows=n_rows, the
\* cloud storage connectors return load_data().head(n_rows), the SQL connectors send
\* the query, with a clause appended unless a guard keyword is found; only the cloud
\* storage connectors wrap the failure of the read in RuntimeError
PreviewData ==
    /\ fetched = NoFetch
    /\ \E n \in 0..MaxPreview,
          co \in (IF ConnectsFirst(connClass, handle) THEN ConnectOutcomes(connClass) ELSE {"ok"}) :
       \E read \in (IF co = "ok" THEN {"ok", "raise"} ELSE {"ok"}) :
          LET fam == Family(connClass)
              connects == ConnectsFirst(connClass, handle)
              isSql == fam \notin FileFamilies
              sent == IF isSql THEN Some(PreviewQuery(connClass, query, n)) ELSE None
              frames == CASE fam = "csv" -> {FirstRows(AllRows(source_rows), n)}
                          [] fam \in FileFamilies \ {"csv"} ->
                               {FirstRows(f, n) :
                                   f \in LoadFrames(connClass, query, sample_size, source_rows)}
                          [] OTHER -> {QueryResult(sent[1], source_rows)}
          IN  /\ handle' = IF connects THEN HandleAfterConnect(connClass, handle, co)
                           ELSE handle
              /\ IF connects /\ co # "ok"
                 THEN fetched' = [op |-> "preview_data", raised |-> "RuntimeError",
                                  frame |-> <<>>, n_rows |-> n, sent |-> None]
                 ELSE IF read = "raise"
                 THEN fetched' = [op |-> "preview_data",
                                  raised |-> IF fam \in FileFamilies \ {"csv"}
                                             THEN "RuntimeError" ELSE "Exception",
                                  frame |-> <<>>, n_rows |-> n, sent |-> sent]
                 ELSE \E f \in frames :
                         fetched' = [op |-> "preview_data", raised |-> "none", frame |-> f,
                                     sent |-> sent, n_rows |-> n]
    /\ UNCHANGED <<query, sample_size, source_rows>>
    /\ UNCHANGED <<connClass, cpc, log, test, withRes, selVars, factoryVars, shapVars, cmpVars, apiVars, updVars, sqlVars>>

\* ------------------------------------------------------------ SHAPExplainer
\* type(self.model).__name__ is a sequence of one-character strings; the explainer
\* classes of the shap library are named by strings.  Whether a shap constructor
\* raises depends on the model and the library: it is chosen freely.

MaxX == 2


\* ['XGB', 'RandomForest', 'GradientBoosting', 'DecisionTree']
TREE_WORDS ==
    <<<<"X", "G", "B">>,
      <<"R", "a", "n", "d", "o", "m", "F", "o", "r", "e", "s", "t">>,
      <<"G", "r", "a", "d", "i", "e", "n", "t", "B", "o", "o", "s", "t", "i", "n", "g">>,
      <<"D", "e", "c", "i", "s", "i", "o", "n", "T", "r", "e", "e">>>>

\* ['Linear', 'Logistic', 'Ridge', 'Lasso', 'ElasticNet']
LINEAR_WORDS ==
    <<<<"L", "i", "n", "e", "a", "r">>,
      <<"L", "o", "g", "i", "s", "t", "i", "c">>,
      <<"R", "i", "d", "g", "e">>,
      <<"L", "a", "s", "s", "o">>,
      <<"E", "l", "a", "s", "t", "i", "c", "N", "e", "t">>>>

\* ['Keras', 'Tensor', 'Torch', 'Neural']
DEEP_WORDS ==
    <<<<"K", "e", "r", "a", "s">>,
      <<"T", "e", "n", "s", "o", "r">>,
      <<"T", "o", "r", "c", "h">>,
      <<"N", "e", "u", "r", "a", "l">>>>

\* any(x in model_name for x in words)
AnyIn(words, name) == \E i \in DOMAIN words : Contains(words[i], name)

PreferredExplainerLinearFirst(name) ==
    IF AnyIn(LINEAR_WORDS, name) THEN "LinearExplainer"
    ELSE IF AnyIn(TREE_WORDS, name) THEN "TreeExplainer"
    ELSE IF AnyIn(DEEP_WORDS, name) THEN "DeepExplainer"
    ELSE "KernelExplainer"

\* the if / elif chain of _initialize_explainer
PreferredExplainer(name) ==
    IF AnyIn(TREE_WORDS, name) THEN "TreeExplainer"
    ELSE IF AnyIn(LINEAR_WORDS, name) THEN "LinearExplainer"
    ELSE IF AnyIn(DEEP_WORDS, name) THEN "DeepExplainer"
    ELSE "KernelExplainer"

\* the model type names tried

ModelNames ==
    {
     <<"X", "G", "B", "C", "l", "a", "s", "s", "i", "f", "i", "e", "r">>,   \* XGBClassifier
     <<"R", "a", "n", "d", "o", "m", "F", "o", "r", "e", "s", "t", "C", "l", "a", "s", "s", "i", "f", "i", "e", "r">>,   \* RandomForestClassifier
     <<"H", "i", "s", "t", "G", "r", "a", "d", "i", "e", "n", "t", "B", "o", "o", "s", "t", "i", "n", "g", "R", "e", "g", "r", "e", "s", "s", "o", "r">>,   \* HistGradientBoostingRegressor
     <<"D", "e", "c", "i", "s", "i", "o", "n", "T", "r", "e", "e", "R", "e", "g", "r", "e", "s", "s", "o", "r">>,   \* DecisionTreeRegressor
     <<"L", "i", "n", "e", "a", "r", "R", "e", "g", "r", "e", "s", "s", "i", "o", "n">>,   \* LinearRegression
     <<"L", "o", "g", "i", "s", "t", "i", "c", "R", "e", "g", "r", "e", "s", "s", "i", "o", "n">>,   \* LogisticRegression
     <<"R", "i", "d", "g", "e">>,   \* Ridge
     <<"L", "a", "s", "s", "o">>,   \* Lasso
     <<"E", "l", "a", "s", "t", "i", "c", "N", "e", "t">>,   \* ElasticNet
     <<"K", "e", "r", "a", "s", "C", "l", "a", "s", "s", "i", "f", "i", "e", "r">>,   \* KerasClassifier
     <<"T", "e", "n", "s", "o", "r", "N", "e", "t">>,   \* TensorNet
     <<"T", "o", "r", "c", "h", "M", "o", "d", "e", "l">>,   \* TorchModel
     <<"N", "e", "u", "r", "a", "l", "N", "e", "t">>,   \* NeuralNet
     <<"S", "V", "C">>,
     <<"L", "G", "B", "M", "C", "l", "a", "s", "s", "i", "f", "i", "e", "r">>,   \* LGBMClassifier
     <<"l", "i", "n", "e", "a", "r", "m", "o", "d", "e", "l">>,   \* linearmodel
     <<"L", "i", "n", "e", "a", "r", "D", "e", "c", "i", "s", "i", "o", "n", "T", "r", "e", "e">>,   \* LinearDecisionTree
     <<"T", "o", "r", "c", "h", "L", "i", "n", "e", "a", "r">>,   \* TorchLinear
     <<"N", "e", "u", "r", "a", "l", "R", "i", "d", "g", "e">>,   \* NeuralRidge
     <<"K", "e", "r", "a", "s", "X", "G", "B">>}   \* KerasXGB

NoExplained == [called |-> FALSE, samples |-> 0, returned |-> None]

\* SHAPExplainer(model, X_train): __init__ sets explainer to None and calls
\* _initialize_explainer; the except branch builds a KernelExplainer outside any
\* try, so that an exception there leaves __init__
InitializeExplainer ==
    /\ spc = "new"
    /\ \E first \in {"ok", "raise"} : \E second \in (IF first = "ok" THEN {"ok"} ELSE {"ok", "raise"}) :
          LET preferred == PreferredExplainer(model_name)
          IN  /\ built' = IF first = "ok" THEN <<preferred>>
                          ELSE <<preferred, "KernelExplainer">>
              /\ explainer' = IF first = "ok" THEN Some(preferred)
                              ELSE IF second = "ok" THEN Some("KernelExplainer")
                              ELSE None
              /\ spc' = IF first = "ok" \/ second = "ok" THEN "ready" ELSE "failed"
    /\ UNCHANGED <<model_name, shap_values, explained>>
    /\ UNCHANGED <<selVars, factoryVars, connVars, dataVars, cmpVars, apiVars, updVars, sqlVars>>

\* explain(X, max_samples) with len(X) = n: at most max_samples rows of X are
\* explained; an exception of the library is caught and None is returned
Explain ==
    /\ spc = "ready"
    /\ \E n \in 0..MaxX, max_samples \in 0..MaxX, ok \in BOOLEAN :
          LET samples == IF n > max_samples THEN max_samples ELSE n
          IN  /\ shap_values' = IF ok THEN Some(samples) ELSE shap_values
              /\ explained' = [called |-> TRUE, samples |-> samples,
                               returned |-> IF ok THEN Some(samples) ELSE None]
    /\ UNCHANGED <<model_name, explainer, spc, built>>
    /\ UNCHANGED <<selVars, factoryVars, connVars, dataVars, cmpVars, apiVars, updVars, sqlVars>>

\* ---------------------------------------------------------- ModelComparison
\* A metrics dict is modelled by its name and its primary metric columns: 'accuracy'
\* is present for classification, 'r2' for regression.  The field 'by' is history:
\* the model object whose predictions the metrics were computed from.

MaxAdds == 3


\* the column get_comparison_table sorts by
PrimaryMetric(ptype) == IF ptype = "classification" THEN "accuracy" ELSE "r2"

\* the values of that column
PrimaryKeys(rows, ptype) == [i \in DOMAIN rows |-> rows[i][PrimaryMetric(ptype)][1]]

\* _calculate_metrics, with the score the sklearn metric function gave
CalculateMetrics(ptype, score) ==
    IF ptype = "classification" THEN [accuracy |-> Some(score), r2 |-> None]
    ELSE [accuracy |-> None, r2 |-> Some(score)]

\* add_model(name, model, X_test, y_test, y_pred): the model is stored under its name;
\* metrics are computed and appended when y_test and predictions are there
\* ("scored"), not when they are missing ("unscored"), and when a metric function
\* raises the exception leaves add_model after the model was stored ("raise")
AddModel ==
    /\ added < MaxAdds
    /\ \E name \in {"rf", "lr"}, outcome \in {"scored", "unscored", "raise"} :
       \E score \in (IF outcome = "scored" THEN Scores ELSE {0}) :
          /\ models' = [n \in DOMAIN models \cup {name} |->
                           IF n = name THEN added + 1 ELSE models[n]]
          /\ cmp_results' =
                IF outcome = "scored"
                THEN Append(cmp_results,
                            [name |-> name, by |-> added + 1,
                             accuracy |-> CalculateMetrics(cmp_type, score).accuracy,
                             r2 |-> CalculateMetrics(cmp_type, score).r2])
                ELSE cmp_results
    /\ added' = added + 1
    /\ asked' = [op |-> "none"]
    /\ UNCHANGED cmp_type
    /\ UNCHANGED <<selVars, factoryVars, connVars, dataVars, shapVars, apiVars, updVars, sqlVars>>

\* The orders a descending sort that is not stable can give: the members of 'left'
\* arranged so that their keys do not increase, equal keys in any order.  (pandas'
\* sort_values uses quicksort by default; SQL's ORDER BY orders ties freely.)
RECURSIVE Descending(_, _)
Descending(keys, left) ==
    IF left = {} THEN {<<>>}
    ELSE UNION {{<<i>> \o rest : rest \in Descending(keys, left \ {i})} :
                   i \in {j \in left : \A k \in left : keys[j] >= keys[k]}}

\* df.sort_values(column, ascending=False) and df['rank'] = range(1, len(df) + 1):
\* the rows in descending order of their keys, each with its rank
ComparisonTables(rows, keys) ==
    {[i \in DOMAIN rows |-> [rank |-> i, row |-> rows[order[i]]]] :
        order \in Descending(keys, DOMAIN rows)}

\* get_comparison_table: an empty DataFrame when there are no results
GetComparisonTable ==
    /\ \E table \in (IF cmp_results = <<>> THEN {<<>>}
                     ELSE ComparisonTables(cmp_results, PrimaryKeys(cmp_results, cmp_type))) :
          asked' = [op |-> "get_comparison_table", table |-> table]
    /\ UNCHANGED <<cmp_type, models, cmp_results, added>>
    /\ UNCHANGED <<selVars, factoryVars, connVars, dataVars, shapVars, apiVars, updVars, sqlVars>>

\* get_best_model: the first row of the comparison table, and the model object that
\* self.models holds under that row's name
GetBestModel ==
    /\ IF cmp_results = <<>>
       THEN asked' = [op |-> "get_best_model", name |-> None, model |-> None,
                      metrics |-> None]
       ELSE \E table \in ComparisonTables(cmp_results, PrimaryKeys(cmp_results, cmp_type)) :
               asked' = [op |-> "get_best_model", name |-> Some(table[1].row.name),
                         model |-> Some(models[table[1].row.name]),
                         metrics |-> Some(table[1])]
    /\ UNCHANGED <<cmp_type, models, cmp_results, added>>
    /\ UNCHANGED <<selVars, factoryVars, connVars, dataVars, shapVars, apiVars, updVars, sqlVars>>

\* AutoMLSelector.get_comparison_dataframe: an empty DataFrame when there are no
\* results, else the results sorted by mean_score, descending, with their ranks
GetComparisonDataframe(rs) ==
    IF rs = <<>> THEN {<<>>}
    ELSE ComparisonTables(rs, [i \in DOMAIN rs |-> rs[i].mean_score])

\* ------------------------------------------------------------- dataset API
\* The datasets table is a function from the ids present to the other columns read
\* here.  Every request gets its own connection from get_db; an exception that is
\* not an HTTPException leaves the endpoint and the server answers 500.

MaxCreated == 2

DatasetIds == {"d1", "d2"}


\* get_db sets conn.row_factory = sqlite3.Row: the rows can be read by index and by
\* column name ("row[...]") and have no get method, so "row.get(...)" raises
\* AttributeError
RowHasGet == FALSE

\* the dict an endpoint builds from a row
DatasetResponse(id, row) ==
    [id |-> id, file_name |-> row.original_filename, workspace_id |-> row.workspace_id,
     project_id |-> row.workspace_id, created_at |-> row.created_at,
     quality_score |-> None]

NoResponse == [endpoint |-> "none", arg |-> None, status |-> 0, detail |-> "",
               body |-> <<>>, closed |-> FALSE]

\* GET /api/datasets/?workspace_id=...; "ORDER BY created_at DESC"
GetDatasets ==
    /\ \E w \in {None} \cup {Some(x) : x \in {"w1", "w2"} \cup {""}} :
          LET ids == IF TruthyStr(w)
                     THEN {i \in DOMAIN datasets : datasets[i].workspace_id = w[1]}
                     ELSE DOMAIN datasets
          IN  IF ids # {} /\ ~RowHasGet
              THEN response' = [endpoint |-> "get_datasets", arg |-> w, status |-> 500,
                                detail |-> "AttributeError", body |-> <<>>,
                                closed |-> FALSE]
              ELSE \E order \in Descending([i \in ids |-> datasets[i].created_at], ids) :
                      response' = [endpoint |-> "get_datasets", arg |-> w, status |-> 200,
                                   detail |-> "",
                                   body |-> [k \in DOMAIN order |->
                                               DatasetResponse(order[k], datasets[order[k]])],
                                   closed |-> TRUE]
    /\ UNCHANGED datasets
    /\ UNCHANGED <<selVars, factoryVars, connVars, dataVars, shapVars, cmpVars, updVars, sqlVars>>

\* GET /api/datasets/{dataset_id}/details, /preview and /quality: 404 when no row has
\* the id; then details and preview call row.get; preview and quality read the CSV
\* file at file_path, an exception there being answered by HTTPException 500
GetDatasetById(endpoint) ==
    /\ \E id \in DatasetIds, read \in {"ok", "raise"} :
          LET answer(status, detail, body, closed) ==
                  [endpoint |-> endpoint, arg |-> Some(id), status |-> status,
                   detail |-> detail, body |-> body, closed |-> closed]
          IN  response' =
                 IF id \notin DOMAIN datasets
                 THEN answer(404, "Dataset not found", <<>>, TRUE)
                 ELSE IF endpoint \in {"get_dataset_details", "get_dataset_preview"}
                         /\ ~RowHasGet
                 THEN answer(500, "AttributeError", <<>>, FALSE)
                 ELSE IF endpoint = "get_dataset_details"
                 THEN answer(200, "", <<DatasetResponse(id, datasets[id])>>, TRUE)
                 ELSE IF read = "raise"
                 THEN answer(500, "Error reading dataset", <<>>, TRUE)
                 ELSE answer(200, "", <<>>, TRUE)
    /\ UNCHANGED datasets
    /\ UNCHANGED <<selVars, factoryVars, connVars, dataVars, shapVars, cmpVars, updVars, sqlVars>>

\* --------------------------------------------------------- update_datasets
\* A row holds row_count and column_count (None is NULL), file_path (None, '' or a
\* path) and updated_at ("old", or "now" once datetime.now() was written).  Its
\* 'file' is "missing", "bad" (pd.read_csv raises) or the <<rows, columns>> of the
\* frame pd.read_csv reads.

MaxCount == 1

NeedsUpdatingAlways(row) == TRUE

\* "WHERE row_count = 0 OR row_count IS NULL OR column_count = 0 OR column_count IS NULL"
NeedsUpdating(row) ==
    \/ row.row_count \in {None, Some(0)}
    \/ row.column_count \in {None, Some(0)}

\* get_csv_stats: (len(df), len(df.columns)), or (0, 0) when reading raises
GetCsvStats(file) == IF file = "bad" THEN <<0, 0>> ELSE file

\* connect, SELECT the datasets to update (in the order the database yields them),
\* and return at once when there are none
UpdateStart ==
    /\ upc = "start"
    /\ LET ids == {i \in DOMAIN utable : NeedsUpdating(utable[i])}
       IN  \E order \in {f \in [1..Cardinality(ids) -> ids] :
                            \A i, j \in DOMAIN f : i # j => f[i] # f[j]} :
              /\ todo' = order
              /\ total' = Len(order)
              /\ upc' = IF Len(order) = 0 THEN "done" ELSE "loop"
    /\ updated' = 0
    /\ failed' = 0
    /\ UNCHANGED <<utable, ubefore>>
    /\ UNCHANGED <<selVars, factoryVars, connVars, dataVars, shapVars, cmpVars, apiVars, sqlVars>>

\* one pass of the for loop
ProcessDataset ==
    /\ upc = "loop"
    /\ todo # <<>>
    /\ LET id == Head(todo)
           row == utable[id]
           stats == GetCsvStats(row.file)
       IN  IF ~TruthyStr(row.file_path) \/ row.file = "missing"
           THEN /\ failed' = failed + 1
                /\ UNCHANGED <<utable, updated>>
           ELSE IF stats[1] > 0 /\ stats[2] > 0
           THEN /\ utable' = [utable EXCEPT ![id] =
                                 [@ EXCEPT !.row_count = Some(stats[1]),
                                           !.column_count = Some(stats[2]),
                                           !.updated_at = "now"]]
                /\ updated' = updated + 1
                /\ UNCHANGED failed
           ELSE /\ failed' = failed + 1
                /\ UNCHANGED <<utable, updated>>
    /\ todo' = Tail(todo)
    /\ upc' = IF Tail(todo) = <<>> THEN "commit" ELSE "loop"
    /\ UNCHANGED <<ubefore, total>>
    /\ UNCHANGED <<selVars, factoryVars, connVars, dataVars, shapVars, cmpVars, apiVars, sqlVars>>

\* conn.commit(), conn.close() and the summary
UpdateFinish ==
    /\ upc = "commit"
    /\ upc' = "done"
    /\ UNCHANGED <<utable, ubefore, todo, total, updated, failed>>
    /\ UNCHANGED <<selVars, factoryVars, connVars, dataVars, shapVars, cmpVars, apiVars, sqlVars>>

\* ------------------------------------------------ SQL connection strings
\* connection_params is a function from the keys present to their values; the value
\* of 'port' is an Optional[int], the other values are strings.  A connection string
\* is modelled by the values substituted into it:
\*   "{dialect}+{driver}://{username}:{password}@{host}:{port}/{database}{query}"
\* with query = <<name, value>> for a trailing "?name=value" and <<>> for none.

MaxConstructs == 2

\* DatabaseConnector._build_connection_string on connection_params 'params'; a value
\* that is absent and has no default is formatted as "None"
BuildConnectionString(params) ==
    LET get(k, d) == IF k \in DOMAIN params THEN params[k] ELSE d
        db_type == get("db_type", "mysql")
        host == get("host", "localhost")
        port == get("port", None)
        database == get("database", "None")
        username == get("username", "None")
        password == get("password", "None")
        portOr(d) == IF Truthy(port) THEN port[1] ELSE d
        string(dialect, driver, p, path, q) ==
            [raised |-> "none",
             connection_string |-> Some([dialect |-> dialect, driver |-> driver,
                                         username |-> username, password |-> password,
                                         host |-> host, port |-> p, database |-> path,
                                         query |-> q])]
    IN  CASE db_type = "mysql" ->
                string("mysql", get("driver", "pymysql"), portOr(3306), database, <<>>)
          [] db_type = "postgresql" ->
                string("postgresql", get("driver", "psycopg2"), portOr(5432), database, <<>>)
          [] db_type = "mssql" ->
                string("mssql", get("driver", "pyodbc"), portOr(1433), database,
                       <<"driver", get("odbc_driver", "ODBC Driver 17 for SQL Server")>>)
          [] db_type = "oracle" ->
                string("oracle", "cx_oracle", portOr(1521), "",
                       <<"service_name", get("service_name", database)>>)
          [] db_type = "db2" ->
                string("db2", "ibm_db", portOr(50000), database, <<>>)
          [] OTHER -> [raised |-> "ValueError", connection_string |-> None]

\* the caller constructs DatabaseConnector or one of its subclasses on its config: a
\* subclass writes its 'db_type' into config.connection_params, then
\* DatabaseConnector.__init__ keeps the config and builds connection_string
ConstructConnector ==
    /\ sql_made.n < MaxConstructs
    /\ \E class \in {"DatabaseConnector", "MySQLConnector", "PostgreSQLConnector",
                     "SQLServerConnector", "OracleConnector", "DB2Connector"} :
          LET params == ParamsAfterInit(class, sql_config.connection_params)
              out == BuildConnectionString(params)
          IN  /\ sql_before' = sql_config
              /\ sql_config' = [sql_config EXCEPT !.connection_params = params]
              /\ sql_made' = [n |-> sql_made.n + 1, class |-> class, raised |-> out.raised,
                              connection_string |-> out.connection_string]
    /\ UNCHANGED <<selVars, factoryVars, connVars, dataVars, shapVars, cmpVars, apiVars, updVars>>

\* ---------------------------------------------------------- specifications

EmptyParams == [k \in {} |-> "v"]

FactoryQuiet ==
    /\ config = [source_type |-> T_csv, connection_params |-> EmptyParams,
                 query_or_path |-> None]
    /\ made = NoMade
    /\ validation = NoValidation

ConnQuiet ==
    /\ connClass = "CSVConnector"
    /\ handle = "None"
    /\ cpc = "ready"
    /\ log = <<>>
    /\ test = NoTest
    /\ withRes = NoWith

\* the parts other than the selector, the factory and the connector state, at rest,
\* but for the part named
RestQuiet(part) ==
    /\ part = "data" \/
          /\ query = <<"d", "a", "t", "a", ".", "c", "s", "v">>
          /\ sample_size = None
          /\ source_rows = 0
          /\ fetched = NoFetch
    /\ part = "shap" \/
          /\ model_name = <<"S", "V", "C">>
          /\ explainer = None
          /\ spc = "new"
          /\ built = <<>>
          /\ shap_values = None
          /\ explained = NoExplained
    /\ part = "compare" \/
          /\ cmp_type = "classification"
          /\ models = <<>>
          /\ cmp_results = <<>>
          /\ added = 0
          /\ asked = [op |-> "none"]
    /\ part = "api" \/
          /\ datasets = <<>>
          /\ response = NoResponse
    /\ part = "update" \/
          /\ utable = <<>>
          /\ ubefore = <<>>
          /\ upc = "start"
          /\ todo = <<>>
          /\ total = 0
          /\ updated = 0
          /\ failed = 0
    /\ part = "sql" \/
          /\ sql_config = [source_type |-> "mysql", connection_params |-> EmptyParams,
                           query_or_path |-> "SELECT 1", cache_enabled |-> TRUE,
                           sample_size |-> None]
          /\ sql_before = sql_config
          /\ sql_made = [n |-> 0, class |-> "", raised |-> "none", connection_string |-> None]

SelQuiet ==
    /\ mode = "manual"
    /\ problem_type = "classification"
    /\ time_limit = None
    /\ n_algorithms = None
    /\ results = <<>>
    /\ best_algorithm = None
    /\ best_score = None
    /\ best_model = None
    /\ pc = "idle"
    /\ algos = <<>>
    /\ idx = 1
    /\ elapsed = 0
    /\ attempted = <<>>
    /\ ret = [raised |-> "none", best_algorithm |-> None, best_score |-> None,
              all_results |-> <<>>]
    /\ train = NoTrain
    /\ autoRet = NoAutoRet
    /\ calls = 0
    /\ evals = 0

Init == InitSel /\ FactoryQuiet /\ ConnQuiet /\ RestQuiet("none")

Next ==
    \/ SelectStart
    \/ TimeLimitBreak
    \/ EvaluateOk
    \/ EvaluateFail
    \/ LoopExit
    \/ SelectReturn
    \/ TrainBestModel

Spec == Init /\ [][Next]_vars

\* the source_type strings tried: every registered tag in lower, upper and mixed
\* case, and some tags that are not registered
SourceTypes ==
    UNION {{t, Upper(t), Capitalized(t)} : t \in RegisteredTags}
        \cup {<<"e", "x", "c", "e", "l">>,              \* "excel"
              <<"m", "o", "n", "g", "o", "d", "b">>,    \* "mongodb"
              <<>>, T_csv \o <<" ">>}

Range(seq) == {seq[i] : i \in DOMAIN seq}

\* the connection_params tried: every subset of the required parameters of a schema
ParamSets ==
    UNION {{[k \in ks |-> "v"] : ks \in SUBSET Range(SCHEMAS[i].required)} :
              i \in DOMAIN SCHEMAS}

InitFactory ==
    /\ config \in [source_type : SourceTypes, connection_params : ParamSets,
                   query_or_path : {None, Some(""), Some("SELECT 1")}]
    /\ made = NoMade
    /\ validation = NoValidation
    /\ SelQuiet
    /\ ConnQuiet
    /\ RestQuiet("none")

NextFactory ==
    \/ DoCreateConnector
    \/ DoValidateConfig

SpecFactory == InitFactory /\ [][NextFactory]_vars

InitConn ==
    /\ connClass \in ConnectorClasses
    /\ handle = "None"
    /\ cpc = "ready"
    /\ log = <<>>
    /\ test = NoTest
    /\ withRes = NoWith
    /\ SelQuiet
    /\ FactoryQuiet
    /\ RestQuiet("none")

NextConn ==
    \/ Connect
    \/ Disconnect
    \/ TestConnection
    \/ WithEnter
    \/ WithExit

SpecConn == InitConn /\ [][NextConn]_vars

\* a connector of any class over a source of up to MaxRows rows
InitData ==
    /\ connClass \in ConnectorClasses
    /\ handle = "None"
    /\ cpc = "ready"
    /\ log = <<>>
    /\ test = NoTest
    /\ withRes = NoWith
    /\ query \in Queries
    /\ sample_size \in {None} \cup {Some(s) : s \in 0..MaxSample}
    /\ source_rows \in 0..MaxRows
    /\ fetched = NoFetch
    /\ SelQuiet
    /\ FactoryQuiet
    /\ RestQuiet("data")

NextData ==
    \/ Connect
    \/ Disconnect
    \/ LoadData
    \/ PreviewData

SpecData == InitData /\ [][NextData]_vars

InitShap ==
    /\ model_name \in ModelNames
    /\ explainer = None
    /\ spc = "new"
    /\ built = <<>>
    /\ shap_values = None
    /\ explained = NoExplained
    /\ SelQuiet
    /\ FactoryQuiet
    /\ ConnQuiet
    /\ RestQuiet("shap")

NextShap ==
    \/ InitializeExplainer
    \/ Explain

SpecShap == InitShap /\ [][NextShap]_vars

\* ModelComparison(problem_type)
InitCompare ==
    /\ cmp_type \in ProblemTypes
    /\ models = <<>>
    /\ cmp_results = <<>>
    /\ added = 0
    /\ asked = [op |-> "none"]
    /\ SelQuiet
    /\ FactoryQuiet
    /\ ConnQuiet
    /\ RestQuiet("compare")

NextCompare ==
    \/ AddModel
    \/ GetComparisonTable
    \/ GetBestModel

SpecCompare == InitCompare /\ [][NextCompare]_vars

\* a datasets table with at most one row for each id
InitApi ==
    /\ datasets \in UNION {[ids -> [original_filename : {"a.csv", "b.csv"},
                                     workspace_id : {"w1", "w2"},
                                     created_at : 1..MaxCreated]] :
                               ids \in SUBSET DatasetIds}
    /\ response = NoResponse
    /\ SelQuiet
    /\ FactoryQuiet
    /\ ConnQuiet
    /\ RestQuiet("api")

NextApi ==
    \/ GetDatasets
    \/ GetDatasetById("get_dataset_details")
    \/ GetDatasetById("get_dataset_preview")
    \/ GetDatasetById("get_dataset_quality")

SpecApi == InitApi /\ [][NextApi]_vars

\* a datasets table with at most one row for each id; a row without a file path has
\* no file
InitUpdate ==
    /\ utable \in UNION {[ids -> {r \in [row_count : {None} \cup {Some(n) : n \in 0..MaxCount},
                                          column_count : {None} \cup {Some(n) : n \in 0..MaxCount},
                                          file_path : {None, Some(""), Some("data/01_raw/a.csv")},
                                          file : {"missing", "bad"}
                                                    \cup ((0..MaxCount) \X (0..MaxCount)),
                                          updated_at : {"old"}] :
                                      ~TruthyStr(r.file_path) => r.file = "missing"}] :
                             ids \in SUBSET DatasetIds}
    /\ ubefore = utable
    /\ upc = "start"
    /\ todo = <<>>
    /\ total = 0
    /\ updated = 0
    /\ failed = 0
    /\ SelQuiet
    /\ FactoryQuiet
    /\ ConnQuiet
    /\ RestQuiet("update")

NextUpdate ==
    \/ UpdateStart
    \/ ProcessDataset
    \/ UpdateFinish

SpecUpdate == InitUpdate /\ [][NextUpdate]_vars

\* a ConnectionConfig whose connection_params hold any of the keys the connection
\* string reads, 'db_type' being one of the five dialects or another text
InitSql ==
    /\ \E keys \in SUBSET {"db_type", "port", "host", "database", "driver", "service_name"} :
       \E db_type \in {"mysql", "postgresql", "mssql", "oracle", "db2",
                       "sqlite", "MySQL", "sqlserver"},
          port \in {None, Some(0), Some(3307)} :
          sql_config = [source_type |-> "mysql",
                        connection_params |->
                            [k \in keys \cup {"username", "password"} |->
                                CASE k = "db_type" -> db_type
                                  [] k = "port" -> port
                                  [] k = "host" -> "db.local"
                                  [] k = "database" -> "sales"
                                  [] k = "driver" -> "mysqlconnector"
                                  [] k = "service_name" -> "ORCL"
                                  [] k = "username" -> "scott"
                                  [] k = "password" -> "tiger"],
                        query_or_path |-> "SELECT 1", cache_enabled |-> TRUE,
                        sample_size |-> None]
    /\ sql_before = sql_config
    /\ sql_made = [n |-> 0, class |-> "", raised |-> "none", connection_string |-> None]
    /\ SelQuiet
    /\ FactoryQuiet
    /\ ConnQuiet
    /\ RestQuiet("sql")

NextSql == ConstructConnector

SpecSql == InitSql /\ [][NextSql]_vars

\* ------------------------------------------------------------- the claims

\* a select_best_algorithm call has returned: 'attempted' holds its loop bodies
Returned == pc \in {"idle", "returned"} /\ calls > 0

AttemptedKeys == [i \in DOMAIN attempted |-> attempted[i].algorithm]

PriorityOfKey(ptype, k) ==
    LET reg == Registry(ptype)
    IN reg[CHOOSE i \in DOMAIN reg : reg[i].key = k].priority

\* ks lists, in ascending priority, exactly the k lowest-priority algorithms
LowestK(ks, ptype, k) ==
    LET reg == Registry(ptype)
    IN /\ Len(ks) = k
       /\ \A i \in DOMAIN ks : ks[i] \in Keys(reg)
       /\ \A i, j \in DOMAIN ks :
             i < j => PriorityOfKey(ptype, ks[i]) < PriorityOfKey(ptype, ks[j])
       /\ \A i \in DOMAIN ks : \A x \in Keys(reg) :
             (\A j \in DOMAIN ks : ks[j] # x) =>
                 PriorityOfKey(ptype, x) > PriorityOfKey(ptype, ks[i])

RegistrySize(ptype) == Len(Registry(ptype))

ResultSet == {results[i] : i \in DOMAIN results}

MaxMean == CHOOSE m \in {r.mean_score : r \in ResultSet} :
               \A r \in ResultSet : r.mean_score <= m

Attaining == {r \in ResultSet : r.mean_score = MaxMean}

\* C2 (as amended): after any number of calls best_score is the maximum mean_score
\* over all recorded results and best_algorithm is the key of the result attaining
\* it that was recorded first (over all calls); with no results both are None.
C2_BestIsMax ==
    Returned =>
        IF results = <<>> THEN best_score = None /\ best_algorithm = None
        ELSE /\ best_score = Some(MaxMean)
             /\ \E r \in Attaining :
                   /\ best_algorithm = Some(r.algorithm)
                   /\ \A q \in Attaining : r.seq <= q.seq

C2_Witness ==
    /\ Returned
    /\ calls = 2
    /\ \E r, q \in Attaining : r.algorithm # q.algorithm
    /\ \E r \in ResultSet : r.mean_score < MaxMean

\* C2 (original): ... and when several algorithms tie, the one with the lowest
\* priority number is kept.
C2_Original ==
    (Returned /\ results # <<>>) =>
        /\ best_score = Some(MaxMean)
        /\ \E r \in Attaining :
              /\ best_algorithm = Some(r.algorithm)
              /\ \A q \in Attaining :
                    PriorityOfKey(problem_type, r.algorithm)
                        <= PriorityOfKey(problem_type, q.algorithm)

\* a step in which one algorithm's creation or cross-validation raised
FailStep ==
    /\ Len(attempted') = Len(attempted) + 1
    /\ attempted'[Len(attempted')].failed

C3_AtReturn ==
    Returned =>
        /\ ret.raised = "none"
        /\ Len(attempted) < Len(algos) => TimeUp
        /\ \A i \in DOMAIN attempted : attempted[i].algorithm = algos[i].key

\* C3: an algorithm whose creation or cross-validation raises is skipped: the step
\* records no result and leaves best_score, best_algorithm and best_model as they
\* were, the loop goes on with the next algorithm (so that at return every
\* algorithm of the list was tried unless the time limit cut the loop), and
\* select_best_algorithm does not raise.
C3_SkipsFailures ==
    /\ [][FailStep => /\ results' = results
                      /\ best_score' = best_score
                      /\ best_algorithm' = best_algorithm
                      /\ best_model' = best_model
                      /\ pc' = "loop"
                      /\ idx' = idx + 1]_vars
    /\ []C3_AtReturn

C3_Witness ==
    /\ Returned
    /\ Len(attempted) = Len(algos)
    /\ \E i, j \in DOMAIN attempted : i < j /\ attempted[i].failed /\ ~attempted[j].failed
    /\ \E i \in DOMAIN attempted : attempted[i].failed /\ i = Len(attempted)
    /\ Len(results) < Len(attempted)

\* C4: train_best_model raises ValueError and leaves best_model unchanged exactly
\* when no algorithm has been selected (no result was ever recorded); otherwise,
\* when it returns, it returns a fresh fitted instance of best_algorithm stored as
\* best_model; auto_train_best_model raises when no algorithm succeeded.
C4_TrainNeedsSelection ==
    /\ train.called =>
          /\ (train.raised = "ValueError") = (train.selected = None)
          /\ (train.selected = None) = (train.nresults = 0)
          /\ train.raised \in {"ValueError", "none", "FitError"}
          /\ train.raised # "none" => train.after = train.before /\ train.returned = None
          /\ train.raised = "none" =>
                /\ train.returned = train.after
                /\ train.after = Some([algo |-> train.selected[1], origin |-> "train",
                                        fitted |-> TRUE])
    /\ (mode = "auto" /\ pc = "returned") =>
          /\ (results = <<>>) = (autoRet.raised = "ValueError")
          /\ autoRet.raised # "none" => autoRet.model = None
          /\ autoRet.raised = "none" => autoRet.model = best_model /\ best_model # None

C4_Witness ==
    /\ mode = "auto"
    /\ pc = "returned"
    /\ attempted # <<>>
    /\ autoRet.raised = "ValueError"
    /\ best_model = None

\* C5: with time_limit = T set, no algorithm is being evaluated more than T seconds
\* after the call began ('elapsed' is the instant the latest evaluation ended).
C5_TimeLimitIsMaximum ==
    (time_limit # None /\ attempted # <<>>) => elapsed <= time_limit[1]

\* two strings that differ at most in the case of their letters
SameIgnoringCase(a, b) ==
    /\ Len(a) = Len(b)
    /\ \A i \in DOMAIN a :
          \/ a[i] = b[i]
          \/ \E n \in DOMAIN LowercaseLetters :
                {a[i], b[i]} = {LowercaseLetters[n], UppercaseLetters[n]}

\* the registered tags that source_type spells, in whatever case
Spelled(source_type) == {t \in RegisteredTags : SameIgnoringCase(source_type, t)}

\* alias tag, canonical tag
Aliases ==
    { <<T_postgres, T_postgresql>>,
      <<T_sqlserver, T_mssql>>,
      <<T_aws_s3, T_s3>>,
      <<T_google_cloud_storage, T_gcs>>,
      <<T_azure, T_azure_blob>>,
      <<T_aws_redshift, T_redshift>>,
      <<T_local_file, T_csv>> }

CanonicalTag(t) == IF \E p \in Aliases : p[1] = t
                   THEN (CHOOSE p \in Aliases : p[1] = t)[2]
                   ELSE t

\* C6: create_connector looks source_type up case-insensitively: a registered tag,
\* in any letter case, yields an instance of exactly the registered class (an alias
\* the class of its canonical tag); any other tag raises ValueError and no
\* connector is constructed.
C6_CreateByTag ==
    made.called =>
        IF Spelled(config.source_type) # {}
        THEN /\ made.raised = "none"
             /\ \A t \in Spelled(config.source_type) :
                   /\ made.class = ConnectorClass(t)
                   /\ made.class = ConnectorClass(CanonicalTag(t))
        ELSE /\ made.raised = "ValueError"
             /\ made.class = ""

C6_Witness ==
    /\ made.called
    /\ config.source_type = Upper(T_postgres)
    /\ made.class = "PostgreSQLConnector"

\* the required parameters the schema lookup of validate_config yields
RequiredOf(source_type) == Range(GetConnectionParamsSchema(source_type))

ErrorsWith(msg) == {i \in DOMAIN validation.errors : validation.errors[i].msg = msg}

\* C7: validate_config returns valid = True iff its errors list is empty; an
\* unsupported source_type gives valid = False with exactly one error and no
\* further check; a supported one gets one 'Missing required parameter' error per
\* required parameter (of the schema looked up for source_type) that is absent
\* from connection_params, plus 'query_or_path is required' when it is empty.
C7_ValidateConfig ==
    validation.called =>
        /\ validation.valid = (validation.errors = <<>>)
        /\ IF Spelled(config.source_type) = {}
           THEN /\ ~validation.valid
                /\ Len(validation.errors) = 1
                /\ validation.errors[1].msg = "Unsupported source type"
           ELSE LET absent == RequiredOf(config.source_type)
                                  \ DOMAIN config.connection_params
                IN /\ \A q \in absent :
                         Cardinality({i \in ErrorsWith("Missing required parameter") :
                                         validation.errors[i].param = q}) = 1
                   /\ Cardinality(ErrorsWith("Missing required parameter"))
                          = Cardinality(absent)
                   /\ Cardinality(ErrorsWith("query_or_path is required"))
                          = IF config.query_or_path \in {None, Some("")} THEN 1 ELSE 0
                   /\ Len(validation.errors)
                          = Cardinality(ErrorsWith("Missing required parameter"))
                            + Cardinality(ErrorsWith("query_or_path is required"))

C7_Witness ==
    /\ validation.called
    /\ config.source_type = Capitalized(T_snowflake)
    /\ Cardinality(ErrorsWith("Missing required parameter")) = 2
    /\ Cardinality(ErrorsWith("query_or_path is required")) = 1
    /\ ~validation.valid

\* C8: for every source type that create_connector supports, alias tags and any
\* letter case included, validate_config reports the config invalid whenever a
\* required parameter of the connector (the schema of the canonical tag) is missing.
C8_AliasesValidated ==
    (validation.called /\ Spelled(config.source_type) # {}) =>
        \A t \in Spelled(config.source_type) :
            (RequiredOf(CanonicalTag(t)) \ DOMAIN config.connection_params # {})
                => ~validation.valid

\* C9: test_connection never raises: a failure to connect or to probe comes back as
\* a dict with status 'error' and a message, a successful probe as status
\* 'success'; there is no other status.
C9_TestConnectionTotal ==
    test.called =>
        /\ test.result.raised = "none"
        /\ test.result.status \in {"success", "error"}
        /\ (test.result.status = "success") = (test.connect = "ok" /\ test.probe = "ok")
        /\ test.result.status = "error" => test.result.message

C9_Witness ==
    /\ test.called
    /\ connClass = "RedshiftConnector"
    /\ test.connect = "late"
    /\ test.result.status = "error"

FullData ==
    IF Family(connClass) \in FileFamilies THEN AllRows(source_rows)
    ELSE QueryResult(query, source_rows)

\* C11: when sample_size = s > 0 is set, load_data of every connector returns at most
\* s rows whatever the text of query_or_path; when sample_size is not set it returns
\* the full data.
C11_SampleSizeLimitsRows ==
    (fetched.op = "load_data" /\ fetched.raised = "none") =>
        /\ (sample_size # None /\ sample_size[1] > 0) => Len(fetched.frame) <= sample_size[1]
        /\ sample_size = None => fetched.frame = FullData

\* C12: preview_data(n_rows) of every connector returns never more than n_rows rows,
\* whatever the text of query_or_path.
C12_PreviewLimitsRows ==
    (fetched.op = "preview_data" /\ fetched.raised = "none") =>
        Len(fetched.frame) <= fetched.n_rows

\* the claim's own reading of the precedence: the first group, in the order tree,
\* linear, deep, one of whose words occurs in the name
C13_Groups ==
    <<[words |-> {TREE_WORDS[i] : i \in DOMAIN TREE_WORDS}, class |-> "TreeExplainer"],
      [words |-> {LINEAR_WORDS[i] : i \in DOMAIN LINEAR_WORDS}, class |-> "LinearExplainer"],
      [words |-> {DEEP_WORDS[i] : i \in DOMAIN DEEP_WORDS}, class |-> "DeepExplainer"]>>

C13_Hits(name) == {i \in DOMAIN C13_Groups : \E w \in C13_Groups[i].words : Contains(w, name)}

C13_Chosen(name) ==
    IF C13_Hits(name) = {} THEN "KernelExplainer"
    ELSE C13_Groups[CHOOSE i \in C13_Hits(name) : \A j \in C13_Hits(name) : i <= j].class

\* C13: SHAPExplainer first builds the explainer its model's type name selects (tree
\* words before linear words before deep-learning words, KernelExplainer otherwise);
\* if that raises it builds a KernelExplainer instead; a constructed SHAPExplainer
\* has its explainer set, to the class built last.
C13_ExplainerChoice ==
    /\ spc # "new" =>
          /\ built \in {<<C13_Chosen(model_name)>>, <<C13_Chosen(model_name), "KernelExplainer">>}
    /\ spc = "ready" =>
          /\ explainer # None
          /\ explainer[1] = built[Len(built)]
    /\ spc = "failed" => (Len(built) = 2 /\ explainer = None)

\* for a name with a linear and a tree word the TreeExplainer was tried, it raised,
\* and the constructed SHAPExplainer holds the KernelExplainer
C13_Witness ==
    /\ spc = "ready"
    /\ Contains(LINEAR_WORDS[1], model_name)
    /\ Contains(TREE_WORDS[4], model_name)
    /\ built = <<"TreeExplainer", "KernelExplainer">>
    /\ explainer = Some("KernelExplainer")

C14_Metric(row) == IF cmp_type = "classification" THEN row.accuracy[1] ELSE row.r2[1]

C14_Rows == {cmp_results[i] : i \in DOMAIN cmp_results}

C14_TableOk ==
    asked.op = "get_comparison_table" =>
        /\ Len(asked.table) = Len(cmp_results)
        /\ \A i \in DOMAIN asked.table : asked.table[i].rank = i
        /\ \A i \in DOMAIN cmp_results :
              Cardinality({j \in DOMAIN cmp_results : cmp_results[j] = cmp_results[i]})
                  = Cardinality({j \in DOMAIN asked.table :
                                    asked.table[j].row = cmp_results[i]})
        /\ \A i, j \in DOMAIN asked.table :
              i < j => C14_Metric(asked.table[i].row) >= C14_Metric(asked.table[j].row)

\* C14: get_best_model returns (None, None, None) when no results are recorded,
\* otherwise the name, the model object and the metrics of a model with the highest
\* primary metric; get_comparison_table lists all recorded results in descending
\* order of that metric with ranks 1..n.
C14_BestModel ==
    /\ C14_TableOk
    /\ asked.op = "get_best_model" =>
          IF cmp_results = <<>>
          THEN asked.name = None /\ asked.model = None /\ asked.metrics = None
          ELSE \E r \in C14_Rows :
                  /\ \A q \in C14_Rows : C14_Metric(r) >= C14_Metric(q)
                  /\ asked.name = Some(r.name)
                  /\ asked.model = Some(r.by)
                  /\ asked.metrics # None
                  /\ asked.metrics[1].row = r

\* the ids of the rows get_datasets is to return for the workspace_id asked
C15_Wanted(w) ==
    IF w = None THEN DOMAIN datasets
    ELSE {i \in DOMAIN datasets : datasets[i].workspace_id = w[1]}

\* C15: get_datasets(workspace_id = w) returns exactly the rows whose workspace_id
\* is w (all rows when none is given), newest created_at first, each with file_name
\* equal to the row's original_filename and project_id equal to its workspace_id;
\* the endpoints that take a dataset id answer 404 'Dataset not found' when no row
\* has the id.
C15_DatasetApi ==
    /\ response.endpoint = "get_datasets" =>
          /\ response.status = 200
          /\ {response.body[k].id : k \in DOMAIN response.body} = C15_Wanted(response.arg)
          /\ Len(response.body) = Cardinality(C15_Wanted(response.arg))
          /\ \A k \in DOMAIN response.body :
                LET d == response.body[k]
                IN  /\ d.file_name = datasets[d.id].original_filename
                    /\ d.project_id = datasets[d.id].workspace_id
                    /\ d.workspace_id = datasets[d.id].workspace_id
                    /\ d.created_at = datasets[d.id].created_at
          /\ \A j, k \in DOMAIN response.body :
                j < k => response.body[j].created_at >= response.body[k].created_at
    /\ ( /\ response.endpoint \in {"get_dataset_details", "get_dataset_preview",
                                   "get_dataset_quality"}
         /\ response.arg[1] \notin DOMAIN datasets )
          => (response.status = 404 /\ response.detail = "Dataset not found")

\* C17: the 'all_results' list select_best_algorithm returns is self.results sorted by
\* mean_score in descending order, and get_comparison_dataframe returns the same
\* records in descending order of mean_score with ranks 1..n (an empty DataFrame
\* when there are no results).
C17_SortedResults ==
    /\ (Returned /\ ret.raised = "none") =>
          /\ ret.all_results = results
          /\ \A i, j \in DOMAIN results :
                i < j => results[i].mean_score >= results[j].mean_score
    /\ pc \in {"idle", "returned"} =>
          \A df \in GetComparisonDataframe(results) :
             /\ Len(df) = Len(results)
             /\ \A i \in DOMAIN df : df[i].rank = i
             /\ \A r \in ResultSet : \E i \in DOMAIN df : df[i].row = r
             /\ \A i, j \in DOMAIN df :
                   i < j => df[i].row.mean_score >= df[j].row.mean_score

\* select_best_algorithm returned results that were recorded in another order
C17_Witness ==
    /\ Returned
    /\ ret.raised = "none"
    /\ \E i, j \in DOMAIN results :
          /\ i < j
          /\ results[i].seq > results[j].seq
          /\ results[i].mean_score > results[j].mean_score
    /\ Cardinality(GetComparisonDataframe(results)) > 1

\* the datasets the claim says are processed
C16_Selected ==
    {i \in DOMAIN ubefore :
        \/ ubefore[i].row_count = None \/ ubefore[i].row_count = Some(0)
        \/ ubefore[i].column_count = None \/ ubefore[i].column_count = Some(0)}

\* the selected datasets the claim says are written
C16_Readable ==
    {i \in C16_Selected :
        /\ ubefore[i].file_path = Some("data/01_raw/a.csv")
        /\ ubefore[i].file \in (1..MaxCount) \X (1..MaxCount)}

\* C16: update_datasets processes exactly the datasets whose row_count or column_count
\* is 0 or NULL; it writes row_count, column_count and updated_at only for those whose
\* file path is set, whose file exists and whose CSV has more than 0 rows and columns;
\* every other dataset is left unchanged, and at the end updated + failed is the
\* number of selected datasets.
C16_UpdateFrame ==
    /\ DOMAIN utable = DOMAIN ubefore
    /\ \A i \in DOMAIN utable : i \notin C16_Readable => utable[i] = ubefore[i]
    /\ upc # "start" =>
          /\ total = Cardinality(C16_Selected)
          /\ updated + failed + Len(todo) = total
          /\ \A k \in DOMAIN todo : todo[k] \in C16_Selected
    /\ upc = "done" =>
          /\ updated + failed = Cardinality(C16_Selected)
          /\ updated = Cardinality(C16_Readable)
          /\ \A i \in C16_Readable :
                utable[i] = [ubefore[i] EXCEPT !.row_count = Some(ubefore[i].file[1]),
                                               !.column_count = Some(ubefore[i].file[2]),
                                               !.updated_at = "now"]

\* a run that wrote one dataset has ended, and the table holds a dataset that was
\* not selected
C16_Witness ==
    /\ upc = "done"
    /\ updated = 1
    /\ DOMAIN utable \ C16_Selected # {}

\* the dialect of each SQL connector subclass and the default port of each dialect,
\* as the claim lists them
C18_Dialect(class) ==
    CASE class = "MySQLConnector" -> "mysql"
      [] class = "PostgreSQLConnector" -> "postgresql"
      [] class = "SQLServerConnector" -> "mssql"
      [] class = "OracleConnector" -> "oracle"
      [] class = "DB2Connector" -> "db2"

C18_Port(dialect) ==
    CASE dialect = "mysql" -> 3306
      [] dialect = "postgresql" -> 5432
      [] dialect = "mssql" -> 1433
      [] dialect = "oracle" -> 1521
      [] dialect = "db2" -> 50000

\* what the construction built, given the connection_params handed over: a subclass
\* builds the string of its own dialect, with the default port when 'port' is absent
\* (or None or 0); the base class builds the string of the given 'db_type' ('mysql'
\* when absent) and raises ValueError when that is none of the five dialects
C18_Built ==
    LET before == sql_before.connection_params
        given == IF "db_type" \in DOMAIN before THEN before["db_type"] ELSE "mysql"
        five == {"mysql", "postgresql", "mssql", "oracle", "db2"}
        dialect == IF sql_made.class = "DatabaseConnector" THEN given
                   ELSE C18_Dialect(sql_made.class)
    IN  IF dialect \notin five
        THEN sql_made.raised = "ValueError" /\ sql_made.connection_string = None
        ELSE /\ sql_made.raised = "none"
             /\ sql_made.connection_string # None
             /\ sql_made.connection_string[1].dialect = dialect
             /\ IF "port" \in DOMAIN before /\ Truthy(before["port"])
                THEN sql_made.connection_string[1].port = before["port"][1]
                ELSE sql_made.connection_string[1].port = C18_Port(dialect)

\* C18: after any construction of a SQL connector, the subclass has built the
\* connection string of its own dialect whatever 'db_type' was given, with the
\* dialect's default port when 'port' is absent; the base class has raised ValueError
\* for a 'db_type' outside the five; and the caller's ConnectionConfig is unchanged
\* but for connection_params['db_type'], which a subclass has set to its dialect.
C18_ConnectionString ==
    sql_made.n > 0 =>
        /\ C18_Built
        /\ LET before == sql_before.connection_params
               after == sql_config.connection_params
           IN  IF sql_made.class = "DatabaseConnector"
               THEN sql_config = sql_before
               ELSE /\ sql_config = [sql_before EXCEPT !.connection_params = after]
                    /\ DOMAIN after = DOMAIN before \cup {"db_type"}
                    /\ after["db_type"] = C18_Dialect(sql_made.class)
                    /\ \A k \in DOMAIN before \ {"db_type"} : after[k] = before[k]

\* C18 as stated: the same, with the caller's ConnectionConfig left unchanged by
\* every construction.
C18_Original ==
    sql_made.n > 0 => (C18_Built /\ sql_config = sql_before)

\* a PostgreSQLConnector constructed on a config that said 'mysql' and gave no port
C18_Witness ==
    /\ sql_made.n > 0
    /\ sql_made.class = "PostgreSQLConnector"
    /\ "db_type" \in DOMAIN sql_before.connection_params
    /\ sql_before.connection_params["db_type"] = "mysql"
    /\ "port" \notin DOMAIN sql_before.connection_params
    /\ sql_made.raised = "none"
    /\ sql_made.connection_string[1].dialect = "postgresql"
    /\ sql_made.connection_string[1].port = 5432
    /\ sql_config.connection_params["db_type"] = "postgresql"

====
